---- MODULE Spec2Model ----
(***************************************************************************)
(* State-machine model of the REST front-end of openCANopen (src/rest.c):  *)
(* the service registry, the accumulation buffer and header detector, and  *)
(* the per-connection client state machine driven by readiness events.     *)
(***************************************************************************)
EXTENDS Integers, Sequences, FiniteSets, TLC

(***************************************************************************)
(* Bounds of the model.                                                    *)
(***************************************************************************)
\* Largest number of services registered in one run.
MaxServices == 2
\* Largest number of injected faults (read errors, allocation failures) per run.
MaxFaults == 1
\* Bytes fetched by one read(); stands for sizeof(input) of rest__read, scaled down.
ReadSize == 3
\* Bytes the buffer holds before it must grow; stands for vector_init's size, scaled down.
VectorSize == 4
\* Largest Content-Length a modelled PUT request declares.
MaxContent == 2
\* Largest number of bytes a peer sends beyond the end of its request.
MaxExtra == 1
\* Largest number of completion checks made for one PUT request.
MaxChecks == 3
\* Largest number of times one connection's header is parsed.
MaxParses == 2
\* Longest buffer content the header detector is exercised on in SpecHead.
MaxHeadLen == 5

(***************************************************************************)
(* Bytes.  A byte is a short string; CR, LF and NUL are the three bytes    *)
(* the code treats specially.                                              *)
(***************************************************************************)
CR == "CR"
LF == "LF"
NUL == "NUL"
CRLFCRLF == <<CR, LF, CR, LF>>

Min(a, b) == IF a < b THEN a ELSE b

\* The positions of NUL bytes in data.
NulPositions(data) == {i \in 1..Len(data) : data[i] = NUL}

\* The C string that starts at data[1]: the bytes before the first NUL.
\* Only used on data that holds a NUL.
CString(data) ==
    LET first == CHOOSE i \in NulPositions(data) : \A j \in NulPositions(data) : i <= j
    IN  SubSeq(data, 1, first - 1)

\* All positions at which needle occurs in hay.
Occurrences(hay, needle) ==
    {i \in 1..(Len(hay) - Len(needle) + 1) : SubSeq(hay, i, i + Len(needle) - 1) = needle}

\* strstr(hay, needle) on NUL-terminated memory: 0 for NULL, else the
\* 1-based position of the first occurrence within the C string.
strstr(data, needle) ==
    LET occ == Occurrences(CString(data), needle)
    IN  IF occ = {} THEN 0 ELSE CHOOSE i \in occ : \A j \in occ : i <= j

\* Whether the byte sequence holds the header terminator anywhere.
ContainsTerminator(bytes) == Occurrences(bytes, CRLFCRLF) # {}

(***************************************************************************)
(* HTTP methods.  enum http_method is a bit mask; a mask is modelled as    *)
(* the set of its bits, `&' as intersection and `|' as union.              *)
(***************************************************************************)
HTTP_GET == {"GET"}
HTTP_PUT == {"PUT"}
HTTP_OPTIONS == {"OPTIONS"}
HTTP_OTHER == {"DELETE"}
\* 0xff: every bit of the low byte.
AllMethodBits == {"GET", "PUT", "OPTIONS", "DELETE", "bit4", "bit5", "bit6", "bit7"}

\* tolower() on the one-character path literals of the model.
ToLower(s) == IF s = "A" THEN "a" ELSE s

\* strcasecmp(a, b) == 0
strcasecmp_eq(a, b) == ToLower(a) = ToLower(b)

\* A request as zeroed by rest_client_new's memset.
ZeroReq == [method |-> {}, url |-> <<>>, url_index |-> 0,
            header_length |-> 0, content_length |-> 0]

(***************************************************************************)
(* Service registry (rest_service_list_): a sequence, head first.          *)
(***************************************************************************)
rest__service_is_match_nocase(service, req) ==
    /\ (req.method \cap service.method) # {}
    /\ req.url_index > 0
    /\ req.url[1] = service.path

rest__service_is_match(service, req) ==
    /\ (req.method \cap service.method) # {}
    /\ req.url_index > 0
    /\ strcasecmp_eq(req.url[1], service.path)

\* The position in list of the service rest__find_service returns; 0 for NULL.
rest__find_service(req, list) ==
    LET hits == {i \in 1..Len(list) : rest__service_is_match(list[i], req)}
    IN  IF hits = {} THEN 0 ELSE CHOOSE i \in hits : \A j \in hits : i <= j

\* The list after rest_register_service(method, path, fn) succeeded.
InsertTail(list, method, path, fn) ==
    Append(list, [method |-> method \cup HTTP_OPTIONS, path |-> path, fn |-> fn])

InsertHead(list, method, path, fn) ==
    <<[method |-> method \cup HTTP_OPTIONS, path |-> path, fn |-> fn]>> \o list

(***************************************************************************)
(* Request parser (http_req_parse, http.c).  The wire format of the model: *)
(* one method byte (G, P, O, D), then one byte per path segment, then an   *)
(* optional digit (the Content-Length), then CR LF CR LF.  Anything else   *)
(* is malformed.                                                           *)
(***************************************************************************)
SegBytes == {"a", "A", "b", "*"}
Digits == <<"0", "1", "2", "3", "4", "5", "6", "7", "8", "9">>
DigitBytes == {Digits[i] : i \in 1..Len(Digits)}
DigitValue(b) == (CHOOSE i \in 1..Len(Digits) : Digits[i] = b) - 1

MethodOf(b) ==
    CASE b = "G" -> HTTP_GET
      [] b = "P" -> HTTP_PUT
      [] b = "O" -> HTTP_OPTIONS
      [] b = "D" -> HTTP_OTHER
      [] OTHER -> {}

\* The number of path segment bytes that follow the method byte.
LeadingSegs(text) ==
    CHOOSE n \in 0..Len(text) :
        /\ \A i \in 2..(n + 1) : i <= Len(text) /\ text[i] \in SegBytes
        /\ (n + 2 > Len(text) \/ text[n + 2] \notin SegBytes)

\* http_req_parse(req, data): [rc, req].  data is the memory at buffer->data,
\* read as a C string.  When parsing fails, `keep' says whether the fields
\* filled in before the failure are left in req or req is left zeroed.
http_req_parse(data, keep) ==
    LET text == CString(data)
    IN  IF Len(text) = 0 \/ MethodOf(text[1]) = {}
        THEN [rc |-> -1, req |-> ZeroReq]
        ELSE LET n == LeadingSegs(text)
                 p == n + 2
                 hasLen == p <= Len(text) /\ text[p] \in DigitBytes
                 clen == IF hasLen THEN DigitValue(text[p]) ELSE 0
                 q == IF hasLen THEN p + 1 ELSE p
                 partial == [method |-> MethodOf(text[1]),
                             url |-> SubSeq(text, 2, n + 1),
                             url_index |-> n,
                             header_length |-> 0,
                             content_length |-> clen]
             IN  IF q + 3 <= Len(text) /\ SubSeq(text, q, q + 3) = CRLFCRLF
                 THEN [rc |-> 0, req |-> [partial EXCEPT !.header_length = q + 3]]
                 ELSE [rc |-> -1, req |-> IF keep THEN partial ELSE ZeroReq]

(***************************************************************************)
(* Accumulation buffer (struct vector): the sequence of its index bytes.   *)
(***************************************************************************)
\* vector_init(buffer, size): [rc, buffer].  The storage is allocated here,
\* which can fail (nomem); vector_destroy releases it.
vector_init(nomem) ==
    IF nomem THEN [rc |-> -1, buffer |-> <<>>] ELSE [rc |-> 0, buffer |-> <<>>]

\* vector_append(buffer, data, size): [rc, buffer].  Growing the buffer can
\* fail when the allocator is out of memory (nomem); nothing is appended then.
vector_append(buffer, data, nomem) ==
    IF nomem /\ Len(buffer) + Len(data) > VectorSize
    THEN [rc |-> -1, buffer |-> buffer]
    ELSE [rc |-> 0, buffer |-> buffer \o data]

(***************************************************************************)
(* rest__read: drain the socket into the buffer.  avail is what the socket *)
(* holds, end is what read() reports once avail is consumed: "EAGAIN",     *)
(* "EOF" (size == 0) or "ERROR" (another errno).                           *)
(***************************************************************************)
RECURSIVE rest__read(_, _, _, _)

rest__read(buffer, avail, end, nomem) ==
    IF avail = <<>>
    THEN [rc |-> IF end = "EAGAIN" THEN 0 ELSE -1, buffer |-> buffer, unread |-> <<>>]
    ELSE LET size == Min(ReadSize, Len(avail))
             a == vector_append(buffer, SubSeq(avail, 1, size), nomem)
             rest == SubSeq(avail, size + 1, Len(avail))
         IN  IF a.rc < 0
             THEN [rc |-> -1, buffer |-> a.buffer, unread |-> rest]
             ELSE rest__read(a.buffer, rest, end, nomem)

(***************************************************************************)
(* rest__read_head: drain, then test for the header terminator.  nomem is  *)
(* "none", "read" (an append of rest__read fails) or "sentinel" (the       *)
(* append of the sentinel fails).  heap is what lies behind the buffer's   *)
(* bytes in memory when no sentinel was stored: strstr then reads on into  *)
(* it.  The result carries data, the memory at buffer->data afterwards.    *)
(***************************************************************************)
rest__read_head(buffer, avail, end, nomem, heap) ==
    LET r == rest__read(buffer, avail, end, nomem = "read")
        a == vector_append(r.buffer, <<NUL>>, nomem = "sentinel")
        data == IF a.rc = 0 THEN a.buffer ELSE r.buffer \o heap
    IN  IF r.rc < 0
        THEN [rc |-> -1, buffer |-> r.buffer, data |-> r.buffer \o heap, unread |-> r.unread]
        ELSE [rc |-> IF strstr(data, CRLFCRLF) # 0 THEN 1 ELSE 0,
              buffer |-> SubSeq(a.buffer, 1, Len(a.buffer) - 1),
              data |-> data, unread |-> r.unread]

(***************************************************************************)
(* Replies.  A reply written to client->output is a record of its header   *)
(* lines, in the order printed, and its body.                              *)
(***************************************************************************)
NotFoundContent == "No service is implemented for the given path.\r\n"
IndexContent == "This is the CANopen master REST service.\r\n"

\* strlen() of the two built-in bodies.
strlen(content) ==
    CASE content = NotFoundContent -> 47
      [] content = IndexContent -> 42
      [] OTHER -> 0

\* rest_reply_header: the header lines for reply data.
rest_reply_header(data) ==
    << <<"HTTP/1.1", data.status_code>>,
       <<"Server", "CANopen master REST service">>,
       <<"Connection", "close">>,
       <<"Content-Type", data.content_type>>,
       IF data.content_length >= 0
       THEN <<"Content-Length", data.content_length>>
       ELSE <<"Transfer-Encoding", "chunked">>,
       <<"Access-Control-Allow-Origin", "*">>,
       <<"Access-Control-Allow-Methods", "GET, PUT">>,
       <<"", "">> >>

\* rest_reply: header and content_length bytes of content.
rest_reply(data) ==
    [by |-> "server", header |-> rest_reply_header(data), body |-> data.content]

(***************************************************************************)
(* The client (struct rest_client) with the stop request of its reactor    *)
(* socket, plus a record of what has been done for it: called (handler     *)
(* invocations), finds (registry lookups), checks (completion checks),     *)
(* parses and parse_failed.                                                *)
(***************************************************************************)
ClientStates == {"START", "CONTENT", "SERVICING", "DONE", "DISCONNECTED"}

\* enum rest_client_state, in declaration order.
StateRank(st) ==
    CASE st = "START" -> 0
      [] st = "CONTENT" -> 1
      [] st = "SERVICING" -> 2
      [] st = "DONE" -> 3
      [] st = "DISCONNECTED" -> 4

NoClient == [state |-> "NONE"]

\* rest_client_new followed by the wiring of rest__on_connection.
rest_client_new ==
    [state |-> "START", ref |-> 1, buffer |-> <<>>, req |-> ZeroReq,
     output |-> <<>>, output_open |-> TRUE, stop |-> FALSE,
     called |-> <<>>, finds |-> 0, checks |-> 0, parses |-> 0,
     parse_failed |-> FALSE, hooks |-> 0, freed |-> <<>>]

rest__not_found_restart(client) ==
    [client EXCEPT
        !.output = Append(@, rest_reply([status_code |-> "404 Not Found",
                                         content_type |-> "text/plain",
                                         content |-> NotFoundContent,
                                         content_length |-> strlen(NotFoundContent)])),
        !.state = "START"]

rest__not_found(client) ==
    [client EXCEPT
        !.output = Append(@, rest_reply([status_code |-> "404 Not Found",
                                         content_type |-> "text/plain",
                                         content |-> NotFoundContent,
                                         content_length |-> strlen(NotFoundContent)])),
        !.state = "DONE"]

rest__print_index(client) ==
    [client EXCEPT
        !.output = Append(@, rest_reply([status_code |-> "200 OK",
                                         content_type |-> "text/plain",
                                         content |-> IndexContent,
                                         content_length |-> strlen(IndexContent)])),
        !.state = "DONE"]

\* A NULL service pointer.
NullService == [null |-> TRUE]

rest__print_options_generic(client, service) ==
    [client EXCEPT
        !.output = Append(@, [by |-> "server",
                              header |-> << <<"HTTP/1.1", "200 OK">>,
                                            <<"Server", "CANopen master REST service">>,
                                            <<"Connection", "close">>,
                                            <<"Content-Length", 0>>,
                                            <<"Access-Control-Allow-Origin", "*">>,
                                            <<"Access-Control-Allow-Methods", "GET, PUT">>,
                                            <<"Allow", <<"GET", "PUT", "OPTIONS">> >>,
                                            <<"", "">> >>,
                              body |-> ""]),
        !.state = "DONE"]

rest__print_options(client, service) ==
    LET methods == IF service # NullService THEN service.method ELSE AllMethodBits
        allow == (IF (methods \cap HTTP_GET) # {} THEN <<"GET">> ELSE <<>>)
                 \o (IF (methods \cap HTTP_PUT) # {} THEN <<"PUT">> ELSE <<>>)
                 \o <<"OPTIONS">>
    IN  [client EXCEPT
            !.output = Append(@, [by |-> "server",
                                  header |-> << <<"HTTP/1.1", "200 OK">>,
                                                <<"Server", "CANopen master REST service">>,
                                                <<"Connection", "close">>,
                                                <<"Content-Length", 0>>,
                                                <<"Access-Control-Allow-Origin", "*">>,
                                                <<"Access-Control-Allow-Methods", "GET, PUT">>,
                                                <<"Allow", allow>>,
                                                <<"", "">> >>,
                                  body |-> ""]),
            !.state = "DONE"]

\* service->fn(client, content): the handler is recorded in called, with the
\* state it found the client in, and writes its one reply.
InvokeHandler(client, service, content) ==
    [client EXCEPT
        !.called = Append(@, [fn |-> service.fn, content |-> content,
                              state |-> client.state]),
        !.output = Append(@, [by |-> "handler", header |-> <<service.fn>>, body |-> ""])]

rest__have_full_content_body_only(client) ==
    Len(client.buffer) >= client.req.content_length

rest__have_full_content(client) ==
    Len(client.buffer) >= client.req.header_length + client.req.content_length

\* The body region handed to a PUT handler: buffer.data + header_length.
BodyPointer(client) ==
    [offset |-> client.req.header_length,
     bytes |-> SubSeq(client.buffer, client.req.header_length + 1,
                      client.req.header_length + client.req.content_length)]

rest__process_content(client, list) ==
    LET checked == [client EXCEPT !.checks = @ + 1]
        found == rest__find_service(client.req, list)
        looked == [checked EXCEPT !.finds = @ + 1]
    IN  IF ~rest__have_full_content(client)
        THEN checked
        ELSE IF found = 0
             THEN rest__not_found(looked)
             ELSE InvokeHandler([looked EXCEPT !.state = "SERVICING"],
                                list[found], BodyPointer(client))

rest__handle_get_late_state(client, list) ==
    LET found == rest__find_service(client.req, list)
        looked == [client EXCEPT !.finds = @ + 1]
    IN  IF client.req.url_index = 0
        THEN rest__print_index(client)
        ELSE IF found = 0
             THEN rest__not_found(looked)
             ELSE [InvokeHandler(looked, list[found], "NULL")
                      EXCEPT !.state = "SERVICING"]

rest__handle_get(client, list) ==
    LET found == rest__find_service(client.req, list)
        looked == [client EXCEPT !.finds = @ + 1]
    IN  IF client.req.url_index = 0
        THEN rest__print_index(client)
        ELSE IF found = 0
             THEN rest__not_found(looked)
             ELSE InvokeHandler([looked EXCEPT !.state = "SERVICING"],
                                list[found], "NULL")

rest__handle_options(client, list) ==
    LET found == rest__find_service(client.req, list)
        looked == [client EXCEPT !.finds = @ + 1]
    IN  IF client.req.url_index = 0
        THEN rest__print_options(client, NullService)
        ELSE IF client.req.url[1] = "*"
             THEN rest__print_options(client, NullService)
             ELSE IF found = 0
                  THEN rest__not_found(looked)
                  ELSE rest__print_options(looked, list[found])

\* mloop_socket_stop(socket): the reactor is asked to drop the socket; it
\* runs the teardown hook afterwards.
mloop_socket_stop(client) == [client EXCEPT !.stop = TRUE]

rest__handle_header_default_404(client, list, avail, end, nomem, heap, keep) ==
    LET h == rest__read_head(client.buffer, avail, end, nomem, heap)
        c1 == [client EXCEPT !.buffer = h.buffer]
        p == http_req_parse(h.data, keep)
        c2 == [c1 EXCEPT !.req = p.req, !.parses = @ + 1,
                         !.parse_failed = (p.rc < 0)]
        c3 == IF p.rc < 0 THEN mloop_socket_stop(c2) ELSE c2
    IN  IF h.rc < 0 THEN mloop_socket_stop(c1)
        ELSE IF h.rc = 0 THEN c1
        ELSE CASE c3.req.method = HTTP_GET -> rest__handle_get(c3, list)
               [] c3.req.method = HTTP_PUT ->
                    rest__process_content([c3 EXCEPT !.state = "CONTENT"], list)
               [] c3.req.method = HTTP_OPTIONS -> rest__handle_options(c3, list)
               [] OTHER -> rest__not_found(c3)

rest__handle_header(client, list, avail, end, nomem, heap, keep) ==
    LET h == rest__read_head(client.buffer, avail, end, nomem, heap)
        c1 == [client EXCEPT !.buffer = h.buffer]
        p == http_req_parse(h.data, keep)
        c2 == [c1 EXCEPT !.req = p.req, !.parses = @ + 1,
                         !.parse_failed = (p.rc < 0)]
        c3 == IF p.rc < 0 THEN mloop_socket_stop(c2) ELSE c2
    IN  IF h.rc < 0 THEN mloop_socket_stop(c1)
        ELSE IF h.rc = 0 THEN c1
        ELSE CASE c3.req.method = HTTP_GET -> rest__handle_get(c3, list)
               [] c3.req.method = HTTP_PUT ->
                    rest__process_content([c3 EXCEPT !.state = "CONTENT"], list)
               [] c3.req.method = HTTP_OPTIONS -> rest__handle_options(c3, list)
               [] OTHER -> c3

rest__handle_content(client, list, avail, end, nomem) ==
    LET r == rest__read(client.buffer, avail, end, nomem = "read")
        c1 == [client EXCEPT !.buffer = r.buffer]
    IN  IF r.rc < 0 THEN mloop_socket_stop(c1)
        ELSE rest__process_content(c1, list)

\* The loop reads until read() returns 0 or fails; the bytes are dropped.
rest__handle_junk(client, avail, end) ==
    IF end = "EOF" THEN mloop_socket_stop(client) ELSE client

rest__on_client_data_redispatch(client, list, avail, end, nomem, heap, keep) ==
    CASE client.state = "START" ->
            rest__handle_header(client, list, avail, end, nomem, heap, keep)
      [] client.state \in {"CONTENT", "SERVICING"} ->
            rest__handle_content(client, list, avail, end, nomem)
      [] client.state = "DONE" -> mloop_socket_stop(client)

rest__on_client_data_done_drains(client, list, avail, end, nomem, heap, keep) ==
    CASE client.state = "START" ->
            rest__handle_header(client, list, avail, end, nomem, heap, keep)
      [] client.state = "CONTENT" ->
            rest__handle_content(client, list, avail, end, nomem)
      [] client.state \in {"SERVICING", "DONE"} -> rest__handle_junk(client, avail, end)

rest__on_client_data(client, list, avail, end, nomem, heap, keep) ==
    CASE client.state = "START" ->
            rest__handle_header(client, list, avail, end, nomem, heap, keep)
      [] client.state = "CONTENT" ->
            rest__handle_content(client, list, avail, end, nomem)
      [] client.state = "SERVICING" -> rest__handle_junk(client, avail, end)
      [] client.state = "DONE" -> mloop_socket_stop(client)

\* rest_client_free: the buffer, the request when state > START, the client.
rest_client_free(client) ==
    [client EXCEPT
        !.freed = @ \o <<"buffer">>
                    \o (IF StateRank(client.state) > StateRank("START")
                        THEN <<"req">> ELSE <<>>)
                    \o <<"client">>]

rest_client_unref(client) ==
    LET c1 == [client EXCEPT !.ref = @ - 1]
    IN  IF c1.ref = 0 THEN rest_client_free(c1) ELSE c1

\* The teardown hook.
rest__on_socket_free(client) ==
    rest_client_unref([client EXCEPT !.state = "DISCONNECTED",
                                     !.output_open = FALSE,
                                     !.hooks = @ + 1])

(***************************************************************************)
(* The connection acceptor.  What a run of it acquires and releases is     *)
(* kept as two sequences of resource names, in the order of the calls:     *)
(* cfd (the accepted descriptor), socket (the reactor socket object),      *)
(* client (struct rest_client), buffer (the client's vector storage), nfd  *)
(* (the duplicated descriptor) and output (the sink).                      *)
(***************************************************************************)
\* The step of the acceptor that fails, if any.
AcceptFails == {"none", "accept", "socket", "malloc", "vector", "dup", "stream"}

\* rest_client_new as a sequence of acquisitions: malloc, then vector_init,
\* whose failure frees the client again.
rest_client_new_steps(fail) ==
    IF fail = "malloc"
    THEN [ok |-> FALSE, acquired |-> <<>>, released |-> <<>>]
    ELSE IF vector_init(fail = "vector").rc < 0
         THEN [ok |-> FALSE, acquired |-> <<"client">>, released |-> <<"client">>]
         ELSE [ok |-> TRUE, acquired |-> <<"client", "buffer">>, released |-> <<>>]

\* rest__on_connection: [acquired, released, started].  The failure labels
\* fall through to one another: close(nfd), free(state),
\* mloop_socket_unref(client), close(cfd).
rest__on_connection(fail) ==
    LET socket_failure == <<"cfd">>
        state_failure == <<"socket">> \o socket_failure
        nfd_failure == <<"client">> \o state_failure
        fdopen_failure == <<"nfd">> \o nfd_failure
        state == rest_client_new_steps(fail)
        got == <<"cfd", "socket">> \o state.acquired
    IN  IF fail = "accept"
        THEN [acquired |-> <<>>, released |-> <<>>, started |-> FALSE]
        ELSE IF fail = "socket"
        THEN [acquired |-> <<"cfd">>, released |-> socket_failure, started |-> FALSE]
        ELSE IF ~state.ok
        THEN [acquired |-> got, released |-> state.released \o state_failure,
              started |-> FALSE]
        ELSE IF fail = "dup"
        THEN [acquired |-> got, released |-> nfd_failure, started |-> FALSE]
        ELSE IF fail = "stream"
        THEN [acquired |-> got \o <<"nfd">>, released |-> fdopen_failure,
              started |-> FALSE]
        ELSE [acquired |-> got \o <<"nfd", "output">>, released |-> <<>>,
              started |-> TRUE]

(***************************************************************************)
(* rest_register_service and the inputs of the model.                      *)
(***************************************************************************)
\* The services the connection runs register: <<method mask, path>>.
ServiceChoices == {<<HTTP_GET \cup HTTP_PUT, "a">>, <<HTTP_GET, "b">>}

\* The services the registry runs register.
RegistryChoices ==
    {<<m, p>> : m \in {HTTP_GET, HTTP_PUT, HTTP_GET \cup HTTP_PUT, HTTP_OTHER},
                p \in {"a", "A", "b"}}

\* The requests looked up in the registry runs.
LookupRequests ==
    {[method |-> m, url |-> u, url_index |-> Len(u),
      header_length |-> 0, content_length |-> 0] :
        m \in {{}, HTTP_GET, HTTP_PUT, HTTP_OPTIONS, HTTP_OTHER},
        u \in {<<>>, <<"a">>, <<"A">>, <<"b">>, <<"*">>, <<"a", "b">>, <<"b", "a">>}}

\* n bytes of payload.
Xs(n) == [i \in 1..n |-> "x"]

Malformed == <<"!">>

\* The byte streams a peer sends.
GetStreams ==
    {h \o CRLFCRLF \o Xs(e) :
        h \in {<<m>> \o u : m \in {"G", "O"},
                            u \in {<<>>, <<"a">>, <<"A">>, <<"b">>, <<"*">>, <<"a", "b">>}}
              \cup {<<"D">>, <<"D", "a">>},
        e \in {0, MaxExtra}}

\* PUT requests: without Content-Length, and with one of 1..MaxContent
\* followed by a body one byte short, exact, or MaxExtra bytes too long.
PutStreams ==
    {h \o CRLFCRLF \o Xs(n) : h \in {<<"P">>, <<"P", "a">>}, n \in {0, MaxExtra}}
    \cup UNION {{h \o <<Digits[d + 1]>> \o CRLFCRLF \o Xs(n) :
                    h \in {<<"P", "a">>, <<"P", "b">>},
                    n \in {d - 1, d, d + MaxExtra}} : d \in 1..MaxContent}

BadStreams ==
    {h \o Malformed \o CRLFCRLF : h \in {<<"G">>, <<"G", "a">>, <<"O">>, <<"D">>,
                                          <<"P", "a">>, <<"P", "a", "1">>}}
    \cup {<<"P", "a", "1">> \o Malformed \o CRLFCRLF \o Xs(1)}

OddStreams ==
    {<<"G", "a", CR, LF>>,
     <<"G", NUL>> \o CRLFCRLF,
     <<"x">> \o CRLFCRLF,
     <<"G">> \o CRLFCRLF \o <<NUL>>}

Streams == GetStreams \cup PutStreams \cup BadStreams \cup OddStreams

\* What may lie in memory behind a buffer that got no sentinel.
HeapTails == {<<NUL>>, CRLFCRLF \o <<NUL>>}

\* The buffer contents the header detector runs are started with.
HeadBytes == {CR, LF, NUL, "x"}
HeadBuffers == UNION {[1..n -> HeadBytes] : n \in 0..MaxHeadLen}

VARIABLES
    registry,       \* rest_service_list_, head first
    registered,     \* the successful rest_register_service calls, in call order
    client,         \* the accepted connection's rest_client, or NoClient
    stream,         \* every byte the peer sends on the connection
    pending,        \* the bytes of stream no read() has consumed yet
    peerCloses,     \* whether the peer closes its sending side after stream
    faults,         \* the number of faults injected so far
    event,          \* the latest accept or readiness event and what it met
    probe           \* the latest application of a function under test

vars == <<registry, registered, client, stream, pending, peerCloses,
          faults, event, probe>>

NoEvent == [kind |-> "none"]
NoProbe == [kind |-> "none"]

Init ==
    /\ registry = <<>>
    /\ registered = <<>>
    /\ client = NoClient
    /\ stream = <<>>
    /\ pending = <<>>
    /\ peerCloses = FALSE
    /\ faults = 0
    /\ event = NoEvent
    /\ probe = NoProbe

\* rest_register_service(method, path, fn), called before connections are
\* accepted; fn is the handler, named by the ordinal of the call.  malloc
\* may fail (ok = FALSE), and then nothing is registered.
Register(choices) ==
    /\ client = NoClient
    /\ Len(registered) < MaxServices
    /\ \E c \in choices, ok \in BOOLEAN :
          /\ registry' = IF ok THEN InsertHead(registry, c[1], c[2], Len(registered) + 1)
                               ELSE registry
          /\ registered' = IF ok
                           THEN Append(registered, [method |-> c[1], path |-> c[2],
                                                    fn |-> Len(registered) + 1])
                           ELSE registered
    /\ UNCHANGED <<client, stream, pending, peerCloses, faults, event, probe>>

\* rest__on_connection for the one connection of a run: when the setup
\* succeeds the client exists and the peer's stream is fixed; when a step
\* fails the connection is abandoned.  event records what was acquired and
\* released.
Accept ==
    /\ client = NoClient
    /\ \E fail \in AcceptFails :
          LET r == rest__on_connection(fail)
          IN  /\ event' = [kind |-> "accept", fail |-> fail, acquired |-> r.acquired,
                           released |-> r.released, started |-> r.started]
              /\ IF r.started
                 THEN /\ client' = rest_client_new
                      /\ stream' \in Streams
                      /\ pending' = stream'
                      /\ peerCloses' \in BOOLEAN
                 ELSE UNCHANGED <<client, stream, pending, peerCloses>>
    /\ UNCHANGED <<registry, registered, faults, probe>>

\* The ends a drain of the first k pending bytes can come to.
ReadEnds(k) ==
    {"EAGAIN"}
    \cup (IF peerCloses /\ k = Len(pending) THEN {"EOF"} ELSE {})
    \cup (IF faults < MaxFaults THEN {"ERROR"} ELSE {})

\* The allocation failures that can strike a readiness event: an append of
\* the drain (START, CONTENT) or the append of the sentinel (START).
NoMems(state) ==
    {"none"}
    \cup (IF faults < MaxFaults /\ state \in {"START", "CONTENT"} THEN {"read"} ELSE {})
    \cup (IF faults < MaxFaults /\ state = "START" THEN {"sentinel"} ELSE {})

\* A readiness event on the client's socket: rest__on_client_data.  keep is
\* whether http_req_parse, should it fail, leaves its partial fields in req
\* (a connection sees at most one failed parse: the socket is stopped then).
\* In DONE nothing is read, so nothing is taken from pending.  The events
\* that can parse or make a completion check (START, CONTENT, no
\* end-of-stream) are capped by MaxParses and MaxChecks.
ClientDataEnding(ends) ==
    /\ client.state \in {"START", "CONTENT", "SERVICING", "DONE"}
    /\ ~client.stop
    /\ \E k \in (IF client.state = "DONE" THEN {0} ELSE 0..Len(pending)) :
       \E end \in ReadEnds(k) \cap ends :
       \E nomem \in (IF end = "ERROR" THEN {"none"} ELSE NoMems(client.state)) :
       \E heap \in (IF nomem = "sentinel" THEN HeapTails ELSE {<<NUL>>}) :
       \E keep \in (IF client.state = "START" THEN BOOLEAN ELSE {TRUE}) :
          /\ \/ end = "EOF"
             \/ client.state \in {"SERVICING", "DONE"}
             \/ (client.checks < MaxChecks /\ client.parses < MaxParses)
          /\ client' = rest__on_client_data(client, registry, SubSeq(pending, 1, k),
                                            end, nomem, heap, keep)
          /\ pending' = IF client.state = "DONE" THEN pending
                        ELSE SubSeq(pending, k + 1, Len(pending))
          /\ faults' = IF end = "ERROR" \/ nomem # "none" THEN faults + 1 ELSE faults
          /\ event' = [kind |-> "data", state |-> client.state, end |-> end,
                       nomem |-> nomem]
    /\ UNCHANGED <<registry, registered, stream, peerCloses, probe>>

ClientData == ClientDataEnding({"EAGAIN", "EOF", "ERROR"})

\* The reactor drops a stopped socket and runs its teardown hook.
Teardown ==
    /\ client.state \in {"START", "CONTENT", "SERVICING", "DONE"}
    /\ client.stop
    /\ client' = rest__on_socket_free(client)
    /\ UNCHANGED <<registry, registered, stream, pending, peerCloses,
                   faults, event, probe>>

Next == Register(ServiceChoices) \/ Accept \/ ClientData \/ Teardown

Spec == Init /\ [][Next]_vars

\* The readiness event at which the read returns 0: the peer has closed its
\* sending side and everything it sent has been drained.
ClientEof == ClientDataEnding({"EOF"})

\* The readiness event that finds the client in DONE.
ClientDone == client.state = "DONE" /\ ClientData

\* The connection under a fair reactor: a closed peer's end-of-stream is
\* eventually read, a client in DONE whose socket is readable eventually
\* gets its readiness event, and a stopped socket is eventually dropped.
SpecLive ==
    Init /\ [][Next]_vars
         /\ WF_vars(ClientEof) /\ WF_vars(ClientDone) /\ WF_vars(Teardown)

(***************************************************************************)
(* The registry on its own: any sequence of registrations and lookups.     *)
(***************************************************************************)
InitRegistry ==
    /\ registry = <<>>
    /\ registered = <<>>
    /\ client = NoClient
    /\ stream = <<>>
    /\ pending = <<>>
    /\ peerCloses = FALSE
    /\ faults = 0
    /\ event = NoEvent
    /\ probe = NoProbe

\* rest__find_service(req) against the list as it stands.
Lookup ==
    /\ \E req \in LookupRequests :
          probe' = [kind |-> "lookup", req |-> req, list |-> registry,
                    calls |-> registered,
                    found |-> rest__find_service(req, registry)]
    /\ UNCHANGED <<registry, registered, client, stream, pending, peerCloses,
                   faults, event>>

NextRegistry == Register(RegistryChoices) \/ Lookup

SpecRegistry == InitRegistry /\ [][NextRegistry]_vars

(***************************************************************************)
(* The header detector on its own: rest__read_head on any buffer content,  *)
(* split anywhere into what is buffered already and what the drain adds.   *)
(***************************************************************************)
InitHead ==
    /\ registry = <<>>
    /\ registered = <<>>
    /\ client = NoClient
    /\ stream = <<>>
    /\ pending = <<>>
    /\ peerCloses = FALSE
    /\ faults = 0
    /\ event = NoEvent
    /\ probe \in {[kind |-> "head", bytes |-> b] : b \in HeadBuffers}

HeadCheck ==
    /\ probe.kind = "head"
    /\ \E k \in 0..Len(probe.bytes) :
       \E end \in {"EAGAIN", "EOF", "ERROR"} :
       \E nomem \in {"none", "read", "sentinel"} :
       \E heap \in (IF nomem = "sentinel" THEN HeapTails ELSE {<<NUL>>}) :
          LET buffer == SubSeq(probe.bytes, 1, k)
              avail == SubSeq(probe.bytes, k + 1, Len(probe.bytes))
              r == rest__read(buffer, avail, end, nomem = "read")
              h == rest__read_head(buffer, avail, end, nomem, heap)
          IN  probe' = [kind |-> "head_checked", drained |-> r.buffer,
                        nomem |-> nomem, rc |-> h.rc, buffer |-> h.buffer]
    /\ UNCHANGED <<registry, registered, client, stream, pending, peerCloses,
                   faults, event>>

NextHead == HeadCheck

SpecHead == InitHead /\ [][NextHead]_vars

(***************************************************************************)
(* Properties of the registry (SpecRegistry).                              *)
(***************************************************************************)
\* The positions of the looked-up list whose service matches the request.
ProbeHits == {i \in 1..Len(probe.list) : rest__service_is_match(probe.list[i], probe.req)}

\* C7: a lookup returns, among the registered services that match the
\* request, the one registered most recently (handlers are named by the
\* ordinal of their registration), and returns one whenever one matches; so
\* a service registered later for the same method and path always hides the
\* older one.
C7_MostRecentMatch ==
    probe.kind = "lookup" =>
        /\ ProbeHits # {} => probe.found \in ProbeHits
        /\ \A i \in ProbeHits : probe.list[i].fn <= probe.list[probe.found].fn

\* Two services registered for the same method and path, and a request for
\* them looked up: the answer is the second registration.
C7_Witness ==
    /\ probe.kind = "lookup"
    /\ Len(probe.calls) = 2
    /\ probe.calls[1].method = probe.calls[2].method
    /\ probe.calls[1].path = probe.calls[2].path
    /\ Cardinality(ProbeHits) = 2
    /\ probe.list[probe.found].fn = 2

\* The match relation as the registration interface describes it: call is
\* the registration (mask and path as passed in), req the request.
DescribedMatch(call, req) ==
    /\ req.url_index >= 1
    /\ ToLower(req.url[1]) = ToLower(call.path)
    /\ req.method # {}
    /\ (req.method \subseteq call.method \/ req.method = HTTP_OPTIONS)

\* C8: a registered service matches a request exactly when the request has
\* a first path segment equal to the registered path ignoring case and its
\* method is in the registered mask or is OPTIONS; later segments play no
\* part; and the lookup returns NULL exactly when no registered service
\* matches in that sense.
C8_MatchRelation ==
    probe.kind = "lookup" =>
        /\ \A i \in 1..Len(probe.list) :
              rest__service_is_match(probe.list[i], probe.req)
                  <=> DescribedMatch(probe.calls[probe.list[i].fn], probe.req)
        /\ probe.found = 0
              <=> \A j \in 1..Len(probe.calls) : ~DescribedMatch(probe.calls[j], probe.req)

\* An OPTIONS request for /a/b finds a service registered for GET on "A".
C8_Witness ==
    /\ probe.kind = "lookup"
    /\ probe.req.method = HTTP_OPTIONS
    /\ probe.req.url = <<"a", "b">>
    /\ probe.found # 0
    /\ probe.calls[probe.list[probe.found].fn] = [method |-> HTTP_GET, path |-> "A",
                                                  fn |-> probe.list[probe.found].fn]

(***************************************************************************)
(* Properties of the header detector (SpecHead).                           *)
(***************************************************************************)
\* C9: after a non-fatal drain the header check returns true exactly when
\* the buffer holds CR LF CR LF anywhere in its bytes, a zero byte before
\* the terminator included.  (Stated for the checks whose sentinel was
\* stored, so that what strstr reads is the buffer and nothing else.)
C9_DetectsTerminator ==
    (probe.kind = "head_checked" /\ probe.rc >= 0 /\ probe.nomem # "sentinel") =>
        (probe.rc = 1 <=> ContainsTerminator(probe.drained))

\* C10: the header check leaves the buffer's length as the drain left it,
\* whether or not the sentinel could be appended.
C10_LengthUnchanged ==
    (probe.kind = "head_checked" /\ probe.rc >= 0) =>
        Len(probe.buffer) = Len(probe.drained)

(***************************************************************************)
(* Properties of the client state machine (Spec).                          *)
(***************************************************************************)
Connected == client.state \in ClientStates

\* header_length + content_length of the client's request.
FullLength(c) == c.req.header_length + c.req.content_length

\* C1: for a PUT request a step that makes a completion check with at
\* least header_length + content_length bytes buffered dispatches (one
\* registry lookup, one reply or handler call, state SERVICING or DONE);
\* every other step taken in START or CONTENT looks nothing up, writes
\* nothing and calls nothing; and once dispatched, nothing more is checked,
\* looked up, written or called.
C1_PutDispatchedOnce ==
    [][(Connected /\ client'.req.method = HTTP_PUT) =>
          LET checkedFull == /\ client'.checks = client.checks + 1
                             /\ Len(client'.buffer) >= FullLength(client')
              quiet == /\ client'.finds = client.finds
                       /\ client'.output = client.output
                       /\ client'.called = client.called
          IN  /\ (client.state \in {"START", "CONTENT"} /\ checkedFull) =>
                    /\ client'.finds = client.finds + 1
                    /\ client.finds = 0
                    /\ Len(client'.output) = Len(client.output) + 1
                    /\ Len(client'.called) <= Len(client.called) + 1
                    /\ client'.state \in {"SERVICING", "DONE"}
              /\ (client.state \in {"START", "CONTENT"} /\ ~checkedFull) =>
                    /\ quiet
                    /\ client'.state \in {"START", "CONTENT", "DISCONNECTED"}
              /\ client.state \in {"SERVICING", "DONE", "DISCONNECTED"} =>
                    /\ quiet
                    /\ client'.checks = client.checks
    ]_vars

\* A PUT body that took three completion checks to arrive, the last one
\* finding more bytes buffered than needed, was handed to its handler once.
C1_Witness ==
    /\ Connected
    /\ client.req.method = HTTP_PUT
    /\ ~client.parse_failed
    /\ client.checks = 3
    /\ client.finds = 1
    /\ Len(client.called) = 1
    /\ Len(client.buffer) > FullLength(client)

\* C2: a handler is invoked at most once per connection, and a step taken
\* with the client in SERVICING or DONE invokes no handler, writes no reply
\* and leaves the registry alone.
C2_PostDispatchSilence ==
    [][Connected =>
          /\ client'.called # client.called =>
                (client.called = <<>> /\ Len(client'.called) = 1)
          /\ client.state \in {"SERVICING", "DONE"} =>
                /\ client'.called = client.called
                /\ client'.output = client.output
                /\ registry' = registry
    ]_vars

\* A readiness event that found the client SERVICING after its handler ran
\* and drained bytes the peer sent after its request.
C2_Witness ==
    /\ Connected
    /\ event.kind = "data"
    /\ event.state = "SERVICING"
    /\ Len(client.called) = 1
    /\ pending = <<>>
    /\ Len(stream) > Len(client.buffer)

\* What a connection came to: the parsed request, the replies written and
\* the handlers invoked with their bodies.
Outcome(c) ==
    [req |-> c.req, output |-> c.output,
     called |-> [i \in 1..Len(c.called) |->
                    [fn |-> c.called[i].fn, content |-> c.called[i].content]]]

\* The whole stream, its end-of-stream included, delivered in one event,
\* to a parser that on failure keeps its partial fields (keep) or not.
SingleShot(keep) ==
    rest__on_client_data(rest_client_new, registry, stream,
                         IF peerCloses THEN "EOF" ELSE "EAGAIN", "none", <<NUL>>, keep)

\* The parsers the client's run is a run of: when its parse failed, req
\* tells whether the partial fields were kept.
ParsersOfRun ==
    IF client.parse_failed THEN {client.req # ZeroReq} ELSE BOOLEAN

\* The stream has been delivered and acted on to the end.
Finished ==
    \/ client.state = "DISCONNECTED"
    \/ (pending = <<>> /\ ~peerCloses)

\* C3: however the stream was split across readiness events, the parsed
\* request and the dispatch outcome equal those of the single-shot delivery
\* (runs without read errors, allocation failures and parse failures).
C3_CoalescingInvariance ==
    (Connected /\ faults = 0 /\ ~client.parse_failed /\ Finished) =>
        \A k \in ParsersOfRun : Outcome(client) = Outcome(SingleShot(k))

\* C4: when the parser failed on a complete header the connection is torn
\* down and nothing else happened for it: no lookup, no reply, no handler,
\* no state other than START before the teardown hook (runs without read
\* errors and allocation failures).
C4_ParseFailureOnlyTearsDown ==
    (Connected /\ faults = 0 /\ client.parse_failed) =>
        /\ client.stop
        /\ client.finds = 0
        /\ client.output = <<>>
        /\ client.called = <<>>
        /\ client.state \in {"START", "DISCONNECTED"}

\* C5: a readiness event whose read ended in end-of-stream or a fatal error
\* requests teardown whatever the state; one whose read ended in would-block
\* (and nothing else went wrong) requests none in START, CONTENT, SERVICING.
C5_ReadEndDecidesTeardown ==
    (Connected /\ event.kind = "data") =>
        /\ event.end \in {"EOF", "ERROR"} => client.stop
        /\ (/\ event.end = "EAGAIN"
            /\ event.nomem = "none"
            /\ event.state \in {"START", "CONTENT", "SERVICING"}
            /\ ~client.parse_failed) => ~client.stop

\* C6: the client state never moves to an earlier one in the order START,
\* CONTENT, SERVICING, DONE, DISCONNECTED; CONTENT is entered only with a
\* PUT request; DISCONNECTED is entered only by the teardown hook and is
\* never left.
C6_StateMonotonic ==
    [][Connected =>
          /\ client'.state \in ClientStates
          /\ StateRank(client'.state) >= StateRank(client.state)
          /\ (client'.state = "CONTENT" /\ client.state # "CONTENT") =>
                client'.req.method = HTTP_PUT
          /\ (client'.state = "DISCONNECTED" /\ client.state # "DISCONNECTED") =>
                client'.hooks = client.hooks + 1
          /\ client'.state # "DISCONNECTED" => client'.hooks = client.hooks
    ]_vars

\* A PUT connection that waited in CONTENT, was answered 404 (DONE) and was
\* torn down.
C6_Witness ==
    /\ Connected
    /\ client.state = "DISCONNECTED"
    /\ client.req.method = HTTP_PUT
    /\ client.checks >= 2
    /\ client.finds = 1
    /\ client.called = <<>>
    /\ event.state = "DONE"

\* The step is a readiness event in START whose parse succeeded.
ParsedStep ==
    /\ Connected
    /\ client.state = "START"
    /\ client'.parses = client.parses + 1
    /\ ~client'.parse_failed

\* The step wrote exactly one reply, by the server, with this status.
WroteServerReply(status) ==
    /\ Len(client'.output) = Len(client.output) + 1
    /\ SubSeq(client'.output, 1, Len(client.output)) = client.output
    /\ client'.output[Len(client'.output)].by = "server"
    /\ client'.output[Len(client'.output)].header[1] = <<"HTTP/1.1", status>>

\* The step invoked exactly one handler: fn, with this body, finding the
\* client SERVICING.
InvokedHandler(fn, content) ==
    /\ client'.called = Append(client.called,
                               [fn |-> fn, content |-> content, state |-> "SERVICING"])
    /\ client'.state = "SERVICING"

\* C11: a successfully parsed GET request has exactly one of three
\* outcomes: with no path segment the index reply (200 OK) and DONE; with a
\* segment and no matching service a 404 reply and DONE; with a matching
\* service one call of that service's handler with a null body, the client
\* being SERVICING when the handler starts.
C11_GetDispatch ==
    [][(ParsedStep /\ client'.req.method = HTTP_GET) =>
          LET found == rest__find_service(client'.req, registry)
              index == /\ WroteServerReply("200 OK")
                       /\ client'.output[Len(client'.output)].body = IndexContent
                       /\ client'.state = "DONE"
                       /\ client'.called = client.called
              notFound == /\ WroteServerReply("404 Not Found")
                          /\ client'.state = "DONE"
                          /\ client'.called = client.called
              handled == /\ found # 0
                         /\ InvokedHandler(registry[found].fn, "NULL")
                         /\ ~WroteServerReply("200 OK")
                         /\ ~WroteServerReply("404 Not Found")
          IN  /\ client'.req.url_index = 0 => (index /\ ~notFound /\ ~handled)
              /\ (client'.req.url_index > 0 /\ found = 0) =>
                    (notFound /\ ~index /\ ~handled)
              /\ (client'.req.url_index > 0 /\ found # 0) =>
                    (handled /\ ~index /\ ~notFound)
    ]_vars

\* GET /b was handed to the handler registered for "b", with a null body.
C11_Witness ==
    /\ Connected
    /\ ~client.parse_failed
    /\ client.req.method = HTTP_GET
    /\ client.req.url = <<"b">>
    /\ Len(client.called) = 1
    /\ client.called[1].content = "NULL"
    /\ client.called[1].state = "SERVICING"
    /\ registry[rest__find_service(client.req, registry)].fn = client.called[1].fn

\* The values of the header lines of a reply that carry this name.
HeaderValues(reply, name) ==
    {reply.header[i][2] : i \in {j \in 1..Len(reply.header) : reply.header[j][1] = name}}

\* The method names of a registration mask, as an Allow header lists them.
AllowOfMask(mask) ==
    (IF "GET" \in mask THEN <<"GET">> ELSE <<>>)
    \o (IF "PUT" \in mask THEN <<"PUT">> ELSE <<>>)
    \o <<"OPTIONS">>

\* C12: a successfully parsed OPTIONS request always ends in DONE with no
\* handler invoked; with no segment or first segment "*" the reply is 200 OK
\* with Allow: GET, PUT, OPTIONS; with a path no service matches it is 404;
\* with a matching service it is 200 OK and Allow lists the methods that
\* service was registered with, plus OPTIONS.
C12_OptionsDispatch ==
    [][(ParsedStep /\ client'.req.method = HTTP_OPTIONS) =>
          LET req == client'.req
              found == rest__find_service(req, registry)
              reply == client'.output[Len(client'.output)]
              generic == req.url_index = 0 \/ req.url[1] = "*"
          IN  /\ client'.state = "DONE"
              /\ client'.called = client.called
              /\ generic =>
                    /\ WroteServerReply("200 OK")
                    /\ HeaderValues(reply, "Allow") = {<<"GET", "PUT", "OPTIONS">>}
              /\ (~generic /\ found = 0) => WroteServerReply("404 Not Found")
              /\ (~generic /\ found # 0) =>
                    /\ WroteServerReply("200 OK")
                    /\ HeaderValues(reply, "Allow") =
                          {AllowOfMask(registered[registry[found].fn].method)}
    ]_vars

\* OPTIONS /b was answered with Allow: GET, OPTIONS, the service for "b"
\* being registered for GET only.
C12_Witness ==
    /\ Connected
    /\ ~client.parse_failed
    /\ client.req.method = HTTP_OPTIONS
    /\ client.req.url = <<"b">>
    /\ client.state = "DONE"
    /\ Len(client.output) = 1
    /\ HeaderValues(client.output[1], "Allow") = {<<"GET", "OPTIONS">>}
    /\ client.called = <<>>

\* The names of a reply's header lines in order, the Allow line of an
\* OPTIONS reply left aside.
HeaderNames(reply) ==
    LET lines == SelectSeq(reply.header, LAMBDA h : h[1] # "Allow")
    IN  [i \in 1..Len(lines) |-> lines[i][1]]

\* C13: every reply the server itself writes (index, 404, OPTIONS) is, in
\* this order: status line, Server, Connection: close, Content-Type, then
\* either Content-Length or Transfer-Encoding: chunked, the two CORS
\* headers, the blank line, and then the body.  (Stated for the runs without
\* read errors, allocation failures and parse failures.)
C13_ReplyLayout ==
    (Connected /\ faults = 0 /\ ~client.parse_failed) =>
        \A i \in 1..Len(client.output) :
            client.output[i].by = "server" =>
                /\ \E framing \in {"Content-Length", "Transfer-Encoding"} :
                      HeaderNames(client.output[i]) =
                          <<"HTTP/1.1", "Server", "Connection", "Content-Type", framing,
                            "Access-Control-Allow-Origin",
                            "Access-Control-Allow-Methods", "">>
                /\ HeaderValues(client.output[i], "Connection") = {"close"}

Reverse(s) == [i \in 1..Len(s) |-> s[Len(s) + 1 - i]]

\* C14: when a step of the acceptor's setup fails, everything acquired for
\* the connection so far is released exactly once, in reverse order of
\* acquisition, nothing is started on the reactor, and the registry and the
\* client slot are as before.
C14_SetupFailureUnwinds ==
    [][(event' # event /\ event'.kind = "accept" /\ event'.fail # "none") =>
          /\ event'.released = Reverse(event'.acquired)
          /\ ~event'.started
          /\ client' = client
          /\ registry' = registry
    ]_vars

\* How many times a resource was released.
Releases(c, what) == Cardinality({i \in 1..Len(c.freed) : c.freed[i] = what})

\* C15: the teardown hook runs at most once; it marks the client
\* DISCONNECTED, closes the sink and drops the single reference together;
\* the buffer and the client are released exactly once by it and never
\* before, and the request is released once if it was parsed and never if
\* it was not.  (Stated for the runs without read errors, allocation
\* failures and parse failures.)
C15_ExactlyOnceRelease ==
    (Connected /\ faults = 0 /\ ~client.parse_failed) =>
        /\ client.hooks <= 1
        /\ client.hooks = 1 <=> client.state = "DISCONNECTED"
        /\ client.hooks = 0 =>
              (client.output_open /\ client.ref = 1 /\ client.freed = <<>>)
        /\ client.hooks = 1 =>
              /\ ~client.output_open
              /\ client.ref = 0
              /\ Releases(client, "buffer") = 1
              /\ Releases(client, "client") = 1
              /\ Releases(client, "req") = IF client.parses > 0 THEN 1 ELSE 0

\* A step taken from such a state is a readiness event (ClientData): the
\* client is connected, not torn down, and no teardown is requested yet.
DataStep ==
    /\ Connected
    /\ client.state # "DISCONNECTED"
    /\ ~client.stop

\* C16: a readiness event that finds the client in DONE requests teardown
\* and does nothing else: it reads nothing (pending and buffer stay), writes
\* no reply and invokes no handler, whatever bytes are pending.
C16_DoneTearsDown ==
    [][(DataStep /\ client.state = "DONE") =>
          /\ client' = [client EXCEPT !.stop = TRUE]
          /\ pending' = pending
    ]_vars

\* A connection answered 404 got a readiness event in DONE with bytes still
\* pending, and teardown was requested with the bytes left unread.
C16_Witness ==
    /\ Connected
    /\ event.kind = "data"
    /\ event.state = "DONE"
    /\ client.state = "DONE"
    /\ client.stop
    /\ pending # <<>>
    /\ Len(client.output) = 1
    /\ client.output[1].header[1] = <<"HTTP/1.1", "404 Not Found">>

\* The client's request was parsed successfully and its method is none of
\* the routed ones.
Unrouted(c) ==
    /\ c.parses > 0
    /\ ~c.parse_failed
    /\ c.req.method \notin {{}, HTTP_GET, HTTP_PUT, HTTP_OPTIONS}

\* C17: a successfully parsed request with a method other than GET, PUT and
\* OPTIONS is never dispatched: after the readiness event that parsed it,
\* and after every later one whose read ends in would-block, no reply is
\* written, no handler is invoked, nothing is looked up, no teardown is
\* requested and the client is in START.
C17_UnroutedStaysInStart ==
    [][(DataStep /\ Unrouted(client')
            /\ event'.end = "EAGAIN" /\ event'.nomem = "none") =>
          /\ client.state = "START"
          /\ client'.state = "START"
          /\ ~client'.stop
          /\ client'.output = <<>>
          /\ client'.called = <<>>
          /\ client'.finds = 0
    ]_vars

\* A DELETE request whose connection got a second readiness event after the
\* one that parsed it, bringing the bytes sent after the header.
C17_Witness ==
    /\ Connected
    /\ Unrouted(client)
    /\ client.parses = 2
    /\ client.state = "START"
    /\ ~client.stop
    /\ client.output = <<>>
    /\ pending = <<>>
    /\ Len(client.buffer) > client.req.header_length

C19_EventuallyDisconnected ==
    /\ (Connected /\ peerCloses) ~> (client.state = "DISCONNECTED")
    /\ [][(Connected /\ faults' = 0 /\ client'.state = "DONE" /\ client'.stop) =>
             (client.state = "DONE" /\ ~client.stop)]_vars

\* C20: the request parser runs at most once for a connection, whatever
\* the method and whatever arrives after the header.  (Stated for the runs
\* without read errors and allocation failures.)
C20_ParsedAtMostOnce ==
    (Connected /\ faults = 0) => client.parses <= 1

====
